---- MODULE Spec2Model ----
(***************************************************************************)
(* Reflectivity of an ambient / thin film / substrate stack over a         *)
(* wavelength grid and a thickness sweep (src/models.rs).                  *)
(*                                                                         *)
(* Numbers.  The program computes in f64, and so does the model: a number  *)
(* is <<neg, ex, h, l>> and stands for (-1)^neg * (h * 2^28 + l) * 2^ex,   *)
(* where the significand h * 2^28 + l is below 2^53 and at least 2^52 for  *)
(* a normal number, ex = EMin for zeros and subnormal numbers, and         *)
(* ex = EMax + 1 and EMax + 2 mark the infinities and NaN.  Zeros keep     *)
(* their sign.  +, -, *, / and the fused multiply-add return the exact     *)
(* result rounded to nearest, ties to even, with overflow to an infinity   *)
(* and gradual underflow, on integers of 32 bits.  exp is the function of  *)
(* the C library the program is linked against, step by step.              *)
(***************************************************************************)
EXTENDS Integers, Sequences, FiniteSets

\* ------------------------------------------------------------------------
\* f64
\* ------------------------------------------------------------------------

\* Significands are held in two limbs of 28 bits and multiplied in limbs of
\* 14 bits.
Base == 268435456

Limb == 16384

\* The exponent of the least significand bit of a subnormal number and of
\* the numbers next to f64::MAX.
EMin == -1074

EMax == 971

Pow2(k) ==
    <<1, 2, 4, 8, 16, 32, 64, 128,
      256, 512, 1024, 2048, 4096, 8192, 16384, 32768,
      65536, 131072, 262144, 524288, 1048576, 2097152, 4194304, 8388608,
      16777216, 33554432, 67108864, 134217728, 268435456, 536870912, 1073741824>>[k + 1]

Max(x, y) == IF x >= y THEN x ELSE y

Min(x, y) == IF x <= y THEN x ELSE y

Xor(s, t) == (s + t) % 2

BitLen8(n) ==
    IF n < 16
    THEN (IF n < 4 THEN (IF n < 2 THEN n ELSE 2) ELSE IF n < 8 THEN 3 ELSE 4)
    ELSE (IF n < 64 THEN (IF n < 32 THEN 5 ELSE 6) ELSE IF n < 128 THEN 7 ELSE 8)

BitLen16(n) == IF n < 256 THEN BitLen8(n) ELSE 8 + BitLen8(n \div 256)

\* The number of bits of n, 0 <= n < 2^31.
BitLen(n) == IF n < 65536 THEN BitLen16(n) ELSE 16 + BitLen16(n \div 65536)

Zero == <<0, -1074, 0, 0>>

NegZero == <<1, -1074, 0, 0>>

Inf == <<0, 972, 0, 0>>

NegInf == <<1, 972, 0, 0>>

NaN == <<0, 973, 0, 0>>

One == <<0, -52, 16777216, 0>>

SignedZero(s) == <<s, EMin, 0, 0>>

SignedInf(s) == <<s, EMax + 1, 0, 0>>

IsFinite(x) == x[2] <= EMax

IsZero(x) == x[2] = EMin /\ x[3] = 0 /\ x[4] = 0

\* The bits of the significand h * 2^28 + l.
Bits2(h, l) == IF h # 0 THEN 28 + BitLen(h) ELSE BitLen(l)

\* floor((h * 2^28 + l) / 2^k)
Shr(h, l, k) ==
    IF k = 0 THEN <<h, l>>
    ELSE IF k < 28 THEN <<h \div Pow2(k), (h % Pow2(k)) * Pow2(28 - k) + l \div Pow2(k)>>
    ELSE IF k < 59 THEN <<(h \div Pow2(k - 28)) \div Base, (h \div Pow2(k - 28)) % Base>>
    ELSE <<0, 0>>

\* Some of the k low bits of h * 2^28 + l is set.
Lost(h, l, k) ==
    IF k <= 0 THEN FALSE
    ELSE IF k <= 28 THEN l % Pow2(k) # 0
    ELSE IF k < 59 THEN l # 0 \/ h % Pow2(k - 28) # 0
    ELSE l # 0 \/ h # 0

\* (h * 2^28 + l) * 2^k, which is below 2^59.
Shl(h, l, k) ==
    IF k = 0 THEN <<h, l>>
    ELSE IF k < 28 THEN <<h * Pow2(k) + l \div Pow2(28 - k), (l % Pow2(28 - k)) * Pow2(k)>>
    ELSE <<l * Pow2(k - 28), 0>>

\* The number of significand m <= 2^53 and exponent e >= EMin.
Pack(neg, e, m) ==
    IF m[1] = 33554432
    THEN (IF e + 1 > EMax THEN SignedInf(neg) ELSE <<neg, e + 1, 16777216, 0>>)
    ELSE IF e > EMax THEN SignedInf(neg)
    ELSE <<neg, e, m[1], m[2]>>

\* q holds the bits that are kept followed by the round bit; rest tells
\* whether a bit after the round bit is set.  Round to nearest, ties to even.
RoundUp(neg, e, q, rest) ==
    IF q[2] % 2 = 1 /\ (rest \/ (q[2] \div 2) % 2 = 1)
    THEN (IF (q[1] % 2) * (Base \div 2) + q[2] \div 2 + 1 = Base
          THEN Pack(neg, e, <<q[1] \div 2 + 1, 0>>)
          ELSE Pack(neg, e, <<q[1] \div 2, (q[1] % 2) * (Base \div 2) + q[2] \div 2 + 1>>))
    ELSE Pack(neg, e, <<q[1] \div 2, (q[1] % 2) * (Base \div 2) + q[2] \div 2>>)

\* k > 0 low bits are dropped, or -k zero bits are appended.
RoundAt(neg, h, l, e, sticky, k) ==
    IF k <= 0 THEN Pack(neg, e + k, Shl(h, l, -k))
    ELSE RoundUp(neg, e + k, Shr(h, l, k - 1), sticky \/ Lost(h, l, k - 1))

\* The f64 nearest to (-1)^neg * (h * 2^28 + l + s) * 2^e, where 0 < s < 1
\* when sticky and s = 0 otherwise.
Round(neg, h, l, e, sticky) ==
    IF h = 0 /\ l = 0 THEN SignedZero(neg)
    ELSE RoundAt(neg, h, l, e, sticky, Max(Bits2(h, l) - 53, EMin - e))

\* A finite nonzero number with a significand of 53 bits; the exponent of a
\* subnormal number goes below EMin.
WithSignificand(x, e, m) == <<x[1], e, m[1], m[2]>>

NormalAt(x, k) == WithSignificand(x, x[2] - k, Shl(x[3], x[4], k))

Normal(x) == IF x[3] >= 16777216 THEN x ELSE NormalAt(x, 53 - Bits2(x[3], x[4]))

FromInt(n) ==
    IF n < 0 THEN Round(1, (-n) \div Base, (-n) % Base, 0, FALSE)
    ELSE Round(0, n \div Base, n % Base, 0, FALSE)

fneg(x) == IF x = NaN THEN NaN ELSE <<1 - x[1], x[2], x[3], x[4]>>

fabs(x) == <<0, x[2], x[3], x[4]>>

\* Numbers of four limbs of 28 bits, the least significant first.
At(w, j) == IF j >= 1 /\ j <= 4 THEN w[j] ELSE 0

ShrLimbs(w, ls, bs) ==
    [j \in 1..4 |-> At(w, j + ls) \div Pow2(bs)
                    + (At(w, j + ls + 1) % Pow2(bs)) * Pow2(28 - bs)]

\* floor(w / 2^k)
Shr4(w, k) == ShrLimbs(w, k \div 28, k % 28)

ShlLimbs(w, ls, bs) ==
    [j \in 1..4 |-> (At(w, j - ls) % Pow2(28 - bs)) * Pow2(bs)
                    + At(w, j - ls - 1) \div Pow2(28 - bs)]

\* w * 2^k, which is below 2^112.
Shl4(w, k) == ShlLimbs(w, k \div 28, k % 28)

LostLimbs(w, ls, bs) ==
    \/ \E j \in 1..4 : j <= ls /\ w[j] # 0
    \/ At(w, ls + 1) % Pow2(bs) # 0

\* Some of the k low bits of w is set.
Lost4(w, k) == k > 0 /\ LostLimbs(w, k \div 28, k % 28)

Bits4(w) ==
    IF w[4] # 0 THEN 84 + BitLen(w[4])
    ELSE IF w[3] # 0 THEN 56 + BitLen(w[3])
    ELSE Bits2(w[2], w[1])

\* u >= v
Geq4(u, v) ==
    IF u[4] # v[4] THEN u[4] > v[4]
    ELSE IF u[3] # v[3] THEN u[3] > v[3]
    ELSE IF u[2] # v[2] THEN u[2] > v[2]
    ELSE u[1] >= v[1]

AddCarry(s1, s2, s3, s4) ==
    <<s1 % Base, (s2 + s1 \div Base) % Base,
      (s3 + (s2 + s1 \div Base) \div Base) % Base,
      s4 + (s3 + (s2 + s1 \div Base) \div Base) \div Base>>

Add4(u, v) == AddCarry(u[1] + v[1], u[2] + v[2], u[3] + v[3], u[4] + v[4])

\* The limbs d1..d4 lie above -Base; a negative one borrows from the next.
SubBorrow3(r1, r2, r3, d4) == <<r1, r2, r3, d4>>

SubBorrow2(r1, r2, d3, d4) ==
    IF d3 < 0 THEN SubBorrow3(r1, r2, d3 + Base, d4 - 1) ELSE SubBorrow3(r1, r2, d3, d4)

SubBorrow1(r1, d2, d3, d4) ==
    IF d2 < 0 THEN SubBorrow2(r1, d2 + Base, d3 - 1, d4) ELSE SubBorrow2(r1, d2, d3, d4)

SubBorrow(d1, d2, d3, d4) ==
    IF d1 < 0 THEN SubBorrow1(d1 + Base, d2 - 1, d3, d4) ELSE SubBorrow1(d1, d2, d3, d4)

\* u - v - c for u >= v + c
Sub4(u, v, c) == SubBorrow(u[1] - v[1] - c, u[2] - v[2], u[3] - v[3], u[4] - v[4])

\* The f64 nearest to (-1)^neg * (w + s) * 2^e, s as for Round.
RoundShifted(neg, s, e, sticky) == Round(neg, s[2], s[1], e, sticky)

RoundTop(neg, w, e, sticky, n) ==
    IF n <= 56 THEN Round(neg, w[2], w[1], e, sticky)
    ELSE RoundShifted(neg, Shr4(w, n - 56), e + n - 56, sticky \/ Lost4(w, n - 56))

Round4(neg, w, e, sticky) == RoundTop(neg, w, e, sticky, Bits4(w))

\* The column sums of the product of two significands of four limbs of 14
\* bits, with the carries of the columns below.
Columns(a1, a2, a3, a4, b1, b2, b3, b4) ==
    LET t1 == a1 * b1
        t2 == a1 * b2 + a2 * b1 + t1 \div Limb
        t3 == a1 * b3 + a2 * b2 + a3 * b1 + t2 \div Limb
        t4 == a1 * b4 + a2 * b3 + a3 * b2 + a4 * b1 + t3 \div Limb
        t5 == a2 * b4 + a3 * b3 + a4 * b2 + t4 \div Limb
        t6 == a3 * b4 + a4 * b3 + t5 \div Limb
        t7 == a4 * b4 + t6 \div Limb
    IN  <<(t2 % Limb) * Limb + (t1 % Limb), (t4 % Limb) * Limb + (t3 % Limb),
          (t6 % Limb) * Limb + (t5 % Limb), t7>>

\* The exact product of the significands of x and y.
Product(x, y) ==
    Columns(x[4] % Limb, x[4] \div Limb, x[3] % Limb, x[3] \div Limb,
            y[4] % Limb, y[4] \div Limb, y[3] % Limb, y[3] \div Limb)

mul_normal(x, y) == Round4(Xor(x[1], y[1]), Product(x, y), x[2] + y[2], FALSE)

\* x * y
fmul(x, y) ==
    IF IsFinite(x) /\ IsFinite(y)
    THEN (IF IsZero(x) \/ IsZero(y) THEN SignedZero(Xor(x[1], y[1]))
          ELSE mul_normal(Normal(x), Normal(y)))
    ELSE IF x = NaN \/ y = NaN \/ IsZero(x) \/ IsZero(y) THEN NaN
    ELSE SignedInf(Xor(x[1], y[1]))

\* The magnitudes u >= v are at the same exponent e; v is followed by lower
\* bits when sticky, and then u ends in at least two zero bits.
add_aligned(nu, u, nv, v, e, sticky) ==
    IF nu = nv
    THEN Round(nu, u[1] + v[1] + (u[2] + v[2]) \div Base, (u[2] + v[2]) % Base, e, sticky)
    ELSE IF u = v THEN Zero
    ELSE IF u[2] >= v[2] + (IF sticky THEN 1 ELSE 0)
    THEN Round(nu, u[1] - v[1], u[2] - v[2] - (IF sticky THEN 1 ELSE 0), e, sticky)
    ELSE Round(nu, u[1] - v[1] - 1, u[2] - v[2] - (IF sticky THEN 1 ELSE 0) + Base, e, sticky)

\* |x| >= |y| > 0, d = the difference of their exponents; three guard bits.
add_apart(x, y, d) ==
    add_aligned(x[1], Shl(x[3], x[4], 3),
                y[1], IF d <= 3 THEN Shl(y[3], y[4], 3 - d) ELSE Shr(y[3], y[4], d - 3),
                x[2] - 3, Lost(y[3], y[4], d - 3))

add_ordered(x, y) == add_apart(x, y, x[2] - y[2])

\* |x| >= |y|
MagGeq(x, y) ==
    IF x[2] # y[2] THEN x[2] > y[2]
    ELSE IF x[3] # y[3] THEN x[3] > y[3]
    ELSE x[4] >= y[4]

\* x + y
fadd(x, y) ==
    IF IsFinite(x) /\ IsFinite(y)
    THEN (IF IsZero(y) THEN (IF IsZero(x) THEN SignedZero(x[1] * y[1]) ELSE x)
          ELSE IF IsZero(x) THEN y
          ELSE add_ordered(IF MagGeq(x, y) THEN x ELSE y, IF MagGeq(x, y) THEN y ELSE x))
    ELSE IF x = NaN \/ y = NaN THEN NaN
    ELSE IF IsFinite(y) THEN x
    ELSE IF IsFinite(x) \/ x = y THEN y
    ELSE NaN

\* x - y
fsub(x, y) == fadd(x, fneg(y))

\* Long division in digits of 14 bits, the least significant first.  The
\* divisor d has four digits and its top digit is at least 2^13; the
\* remainder r is below d.

\* r * 2^14 - q * d: four digits and the top, which is negative when q is too
\* large.
DivSub(r, d, q) ==
    LET t1 == 0 - q * d[1]
        t2 == r[1] - q * d[2] + t1 \div Limb
        t3 == r[2] - q * d[3] + t2 \div Limb
        t4 == r[3] - q * d[4] + t3 \div Limb
    IN  <<t1 % Limb, t2 % Limb, t3 % Limb, t4 % Limb, r[4] + t4 \div Limb>>

DivAddBack(s, d) ==
    LET u1 == s[1] + d[1]
        u2 == s[2] + d[2] + u1 \div Limb
        u3 == s[3] + d[3] + u2 \div Limb
        u4 == s[4] + d[4] + u3 \div Limb
    IN  <<u1 % Limb, u2 % Limb, u3 % Limb, u4 % Limb, s[5] + u4 \div Limb>>

\* The digit q is lowered until the remainder s is not negative.
RECURSIVE DivFix(_, _, _)
DivFix(q, s, d) ==
    IF s[5] >= 0 THEN <<q, s[1], s[2], s[3], s[4]>>
    ELSE DivFix(q - 1, DivAddBack(s, d), d)

DivTry(r, d, q) == DivFix(q, DivSub(r, d, q), d)

\* The next quotient digit and remainder, from an estimate of the digit
\* that is at most two too large.
DivDigit(r, d) == DivTry(r, d, Min(Limb - 1, (r[4] * Limb + r[3]) \div d[4]))

RECURSIVE DivLoop(_, _, _, _, _)
DivNext(s, d, qh, ql, n) ==
    DivLoop(<<s[2], s[3], s[4], s[5]>>, d, qh * Limb + ql \div Limb,
            (ql % Limb) * Limb + s[1], n)

\* n digits remain; the result is the quotient in two limbs and whether a
\* remainder is left.
DivLoop(r, d, qh, ql, n) ==
    IF n = 0 THEN <<qh, ql, r # <<0, 0, 0, 0>>>>
    ELSE DivNext(DivDigit(r, d), d, qh, ql, n - 1)

Digits4(m) == <<m[2] % Limb, m[2] \div Limb, m[1] % Limb, m[1] \div Limb>>

\* u - v for u >= v
Sub2(u, v) ==
    IF u[2] >= v[2] THEN <<u[1] - v[1], u[2] - v[2]>>
    ELSE <<u[1] - v[1] - 1, u[2] - v[2] + Base>>

Geq2(u, v) == u[1] > v[1] \/ (u[1] = v[1] /\ u[2] >= v[2])

\* floor(u * 2^56 / v) for significands u, v of 56 bits.
DivLimbs(u, v) ==
    IF Geq2(u, v) THEN DivLoop(Digits4(Sub2(u, v)), Digits4(v), 0, 1, 4)
    ELSE DivLoop(Digits4(u), Digits4(v), 0, 0, 4)

div_round(neg, q, e) == Round(neg, q[1], q[2], e, q[3])

div_normal(x, y) ==
    div_round(Xor(x[1], y[1]), DivLimbs(Shl(x[3], x[4], 3), Shl(y[3], y[4], 3)),
              x[2] - y[2] - 56)

\* x / y
fdiv(x, y) ==
    IF IsFinite(x) /\ IsFinite(y)
    THEN (IF IsZero(y) THEN (IF IsZero(x) THEN NaN ELSE SignedInf(Xor(x[1], y[1])))
          ELSE IF IsZero(x) THEN SignedZero(Xor(x[1], y[1]))
          ELSE div_normal(Normal(x), Normal(y)))
    ELSE IF x = NaN \/ y = NaN THEN NaN
    ELSE IF IsFinite(y) THEN SignedInf(Xor(x[1], y[1]))
    ELSE IF IsFinite(x) THEN SignedZero(Xor(x[1], y[1]))
    ELSE NaN

\* p * 2^e + z where z outweighs p: as add_apart, z with three guard bits.
Low2(w) == <<w[2], w[1]>>

fma_below(neg, p, e, z) ==
    add_aligned(z[1], Shl(z[3], z[4], 3), neg, Low2(Shr4(p, z[2] - 3 - e)),
                z[2] - 3, Lost4(p, z[2] - 3 - e))

\* (-1)^neg * p + (-1)^nz * (v + s), 0 < s < 1 when sticky, at exponent e.
fma_sum(neg, p, e, nz, v, sticky) ==
    IF neg = nz THEN Round4(neg, Add4(p, v), e, sticky)
    ELSE IF p = v THEN Zero
    ELSE IF Geq4(p, v) THEN Round4(neg, Sub4(p, v, IF sticky THEN 1 ELSE 0), e, sticky)
    ELSE Round4(nz, Sub4(v, p, 0), e, sticky)

fma_aligned(neg, p, e, z, t) ==
    IF t > 59 THEN fma_below(neg, p, e, z)
    ELSE fma_sum(neg, p, e, z[1],
                 IF t >= 0 THEN Shl4(<<z[4], z[3], 0, 0>>, t)
                 ELSE Shr4(<<z[4], z[3], 0, 0>>, -t),
                 Lost(z[3], z[4], -t))

fma_normal(x, y, z) ==
    fma_aligned(Xor(x[1], y[1]), Product(x, y), x[2] + y[2], z, z[2] - x[2] - y[2])

\* x * y + z, rounded once.
ffma(x, y, z) ==
    IF IsFinite(x) /\ IsFinite(y) /\ IsFinite(z)
    THEN (IF IsZero(x) \/ IsZero(y) THEN fadd(SignedZero(Xor(x[1], y[1])), z)
          ELSE IF IsZero(z) THEN mul_normal(Normal(x), Normal(y))
          ELSE fma_normal(Normal(x), Normal(y), Normal(z)))
    ELSE IF x = NaN \/ y = NaN \/ z = NaN THEN NaN
    ELSE IF IsFinite(x) /\ IsFinite(y) THEN z
    ELSE IF IsZero(x) \/ IsZero(y) THEN NaN
    ELSE IF IsFinite(z) \/ z[1] = Xor(x[1], y[1]) THEN SignedInf(Xor(x[1], y[1]))
    ELSE NaN

\* x < y
fless(x, y) ==
    /\ x # NaN /\ y # NaN
    /\ ~(IsZero(x) /\ IsZero(y))
    /\ x # y
    /\ IF x[1] # y[1] THEN x[1] = 1
       ELSE IF x[1] = 0 THEN MagGeq(y, x)
       ELSE MagGeq(x, y)

\* x <= y
fleq(x, y) == x # NaN /\ y # NaN /\ ~fless(y, x)

\* The integer part of |x| for |x| < 2^31, and IntMax from there on.
IntMax == 2147483647

trunc_limbs(m) == IF m[1] >= 8 THEN IntMax ELSE m[1] * Base + m[2]

trunc_normal(x) ==
    IF x[2] >= 0 THEN IntMax
    ELSE IF x[2] <= -53 THEN 0
    ELSE trunc_limbs(Shr(x[3], x[4], -x[2]))

Trunc(x) == IF IsZero(x) THEN 0 ELSE trunc_normal(x)

IsInteger(x) == IsZero(x) \/ x[2] >= 0 \/ (x[2] > -53 /\ ~Lost(x[3], x[4], -x[2]))

\* The integer part of |x| in two limbs, for a finite x that is no integer.
IntPart(x) == IF x[2] <= -53 THEN <<0, 0>> ELSE Shr(x[3], x[4], -x[2])

Succ2(m) == IF m[2] + 1 = Base THEN <<m[1] + 1, 0>> ELSE <<m[1], m[2] + 1>>

FromLimbs(neg, m) == Round(neg, m[1], m[2], 0, FALSE)

\* f64::ceil
fceil(x) ==
    IF ~IsFinite(x) \/ IsInteger(x) THEN x
    ELSE IF x[1] = 1 THEN FromLimbs(1, IntPart(x))
    ELSE FromLimbs(0, Succ2(IntPart(x)))

\* f64::floor
ffloor(x) ==
    IF ~IsFinite(x) \/ IsInteger(x) THEN x
    ELSE IF x[1] = 1 THEN FromLimbs(1, Succ2(IntPart(x)))
    ELSE FromLimbs(0, IntPart(x))

\* f64::powi(x, 2)
fpowi2(x) == fmul(x, x)

\* The powers of ten that are f64 values.
Ten ==
    <<
       <<0, -52, 16777216, 0>>, <<0, -49, 20971520, 0>>, <<0, -46, 26214400, 0>>,
       <<0, -43, 32768000, 0>>, <<0, -39, 20480000, 0>>, <<0, -36, 25600000, 0>>,
       <<0, -33, 32000000, 0>>, <<0, -29, 20000000, 0>>, <<0, -26, 25000000, 0>>,
       <<0, -23, 31250000, 0>>, <<0, -19, 19531250, 0>>, <<0, -16, 24414062, 134217728>>,
       <<0, -13, 30517578, 33554432>>, <<0, -9, 19073486, 88080384>>, <<0, -6, 23841857, 244318208>>,
       <<0, -3, 29802322, 104071168>>, <<0, 1, 18626451, 132153344>>, <<0, 4, 23283064, 98082816>>,
       <<0, 7, 29103830, 122603520>>, <<0, 11, 18189894, 9518336>>, <<0, 14, 22737367, 146115648>>,
       <<0, 17, 28421709, 115535696>>, <<0, 21, 17763568, 105764242>> >>

\* The f64 of the decimal literal num * 10^(-dec), -22 <= dec <= 22.
Lit(num, dec) ==
    IF dec = 0 THEN FromInt(num)
    ELSE IF dec > 0 THEN fdiv(FromInt(num), Ten[dec + 1])
    ELSE fmul(FromInt(num), Ten[1 - dec])

\* ------------------------------------------------------------------------
\* f64::exp: the exp of the C library (glibc, x86-64 with FMA), which
\* computes exp(x) = 2^(k/128) * 2^q * exp(r) for x = (128 q + k) ln2/128 + r
\* ------------------------------------------------------------------------

InvLn2N == <<0, -45, 24204406, 86737662>>

Shift == <<0, 0, 25165824, 0>>

NegLn2hiN == <<1, -60, 23258159, 251265024>>

NegLn2loN == <<1, -99, 30374315, 211696442>>

C2 == <<0, -54, 33554431, 268434877>>

C3 == <<0, -55, 22369621, 89478204>>

C4 == <<0, -57, 22369628, 253176721>>

C5 == <<0, -59, 17895702, 128241687>>

Two1009 == <<0, 957, 16777216, 0>>

TwoM1022 == <<0, -1074, 16777216, 0>>

\* The significands of 2^(k/128), k = 0..127.
ExpScale ==
    <<
       <<16777216, 0>>, <<16868314, 167457589>>, <<16959907, 242712673>>, <<17051998, 141459333>>,
       <<17144589, 51742068>>, <<17237682, 165541598>>, <<17331281, 141925320>>, <<17425388, 180810627>>,
       <<17520006, 217680143>>, <<17615138, 192038903>>, <<17710787, 47436194>>, <<17806954, 268358427>>,
       <<17903645, 1203025>>, <<18000860, 7090636>>, <<18098602, 245968352>>, <<18196876, 145067601>>,
       <<18295683, 209539451>>, <<18395027, 143429098>>, <<18494910, 191875957>>, <<18595336, 67394772>>,
       <<18696307, 23640490>>, <<18797826, 50125085>>, <<18899896, 140676310>>, <<19002521, 25025686>>,
       <<19105702, 242573880>>, <<19209444, 263366207>>, <<19313750, 98729181>>, <<19418622, 32859009>>,
       <<19524063, 85974753>>, <<19630077, 14342544>>, <<19736666, 115606283>>, <<19843834, 155070294>>,
       <<19951584, 171030293>>, <<20059919, 206362673>>, <<20168843, 40113919>>, <<20278357, 261267441>>,
       <<20388467, 121285067>>, <<20499174, 218486886>>, <<20610483, 82157559>>, <<20722396, 51620069>>,
       <<20834916, 202519586>>, <<20948048, 78413852>>, <<21061794, 32976426>>, <<21176157, 156280983>>,
       <<21291142, 6392109>>, <<21406750, 220004439>>, <<21522987, 96550096>>, <<21639855, 14144478>>,
       <<21757357, 87435815>>, <<21875497, 167632141>>, <<21994279, 110963879>>, <<22113706, 47146562>>,
       <<22233781, 110972802>>, <<22354508, 173904399>>, <<22475891, 112535514>>, <<22597933, 77055997>>,
       <<22720637, 222843945>>, <<22844008, 173622967>>, <<22968049, 95232328>>, <<23092763, 158784521>>,
       <<23218155, 3822981>>, <<23344227, 80528160>>, <<23470984, 39133733>>, <<23598429, 72132979>>,
       <<23726566, 109001677>>, <<23855399, 84662975>>, <<23984931, 207952431>>, <<24115167, 156341380>>,
       <<24246110, 149708660>>, <<24377764, 145064308>>, <<24510133, 105015241>>, <<24643220, 266231103>>,
       <<24777031, 65732999>>, <<24911568, 19972402>>, <<25046835, 114249314>>, <<25182837, 71178770>>,
       <<25319577, 156028435>>, <<25457060, 103008173>>, <<25595289, 189043437>>, <<25734269, 160065177>>,
       <<25874004, 36348123>>, <<26014497, 112542860>>, <<26155753, 152401718>>, <<26297776, 194117574>>,
       <<26440571, 13485541>>, <<26584140, 197677583>>, <<26728489, 266227280>>, <<26873623, 13240250>>,
       <<27019544, 44298384>>, <<27166257, 165880611>>, <<27313767, 190702949>>, <<27462078, 206187827>>,
       <<27611195, 37627229>>, <<27761121, 53523288>>, <<27911861, 91880895>>, <<28063419, 265548666>>,
       <<28215801, 156947373>>, <<28369010, 160282214>>, <<28523051, 139400699>>, <<28677928, 233134394>>,
       <<28833647, 50028103>>, <<28990211, 10552906>>, <<29147625, 4964818>>, <<29305893, 198647305>>,
       <<29465021, 226841244>>, <<29625013, 268423290>>, <<29785874, 240636235>>, <<29947609, 67561397>>,
       <<30110221, 217026665>>, <<30273717, 90031098>>, <<30438100, 168266108>>, <<30603376, 135105010>>,
       <<30769549, 217818247>>, <<30936625, 113869720>>, <<31104608, 64696965>>, <<31273503, 50443360>>,
       <<31443315, 58432351>>, <<31614049, 83206441>>, <<31785710, 126566390>>, <<31958303, 197610627>>,
       <<32131834, 44339418>>, <<32306306, 227436529>>, <<32481726, 241261095>>, <<32658099, 124500631>>,
       <<32835429, 191776064>>, <<33013722, 228376084>>, <<33192984, 27168984>>, <<33373218, 193950193>> >>

\* 2^(k/128) less its f64, k = 0..127.
ExpTail ==
    <<
       <<0, -1074, 0, 0>>, <<0, -106, 28554481, 176734062>>, <<1, -108, 18219321, 215538781>>,
       <<1, -106, 17164193, 8873681>>, <<0, -107, 30221603, 90699283>>, <<1, -107, 29157378, 66686714>>,
       <<0, -109, 17790182, 31901793>>, <<0, -106, 17448517, 187945881>>, <<0, -106, 24750693, 226720621>>,
       <<0, -107, 32199081, 50196476>>, <<0, -112, 32236503, 3120337>>, <<1, -109, 27276104, 160460299>>,
       <<1, -106, 22373666, 170900750>>, <<1, -110, 17305336, 206498389>>, <<1, -106, 18649659, 165016598>>,
       <<0, -107, 17645118, 157046191>>, <<1, -107, 16888158, 178623304>>, <<1, -107, 32636677, 98447933>>,
       <<0, -107, 28874947, 252924863>>, <<1, -106, 23960007, 101837606>>, <<0, -106, 28233587, 238694240>>,
       <<1, -107, 33454124, 193345693>>, <<0, -107, 27718676, 78037901>>, <<0, -107, 17277019, 14943357>>,
       <<0, -106, 23654366, 61384852>>, <<0, -107, 24502671, 41175165>>, <<0, -107, 17068729, 136308722>>,
       <<1, -106, 23824307, 259065950>>, <<0, -107, 19889686, 218737457>>, <<1, -112, 30546353, 175095802>>,
       <<0, -107, 28538919, 34343604>>, <<0, -109, 31541544, 164547471>>, <<0, -107, 20240212, 229682102>>,
       <<0, -107, 23339038, 44856396>>, <<0, -107, 33411989, 231995466>>, <<1, -107, 23738371, 193878788>>,
       <<1, -106, 19181276, 206262376>>, <<1, -106, 26247041, 189869454>>, <<1, -108, 18685571, 244594386>>,
       <<1, -106, 26317211, 63838997>>, <<0, -107, 22672522, 120212589>>, <<1, -106, 19998215, 170420618>>,
       <<1, -110, 25852148, 135760219>>, <<1, -108, 29542838, 122264091>>, <<0, -111, 20332246, 12758033>>,
       <<0, -106, 23486611, 184968431>>, <<0, -109, 32296477, 178324345>>, <<0, -106, 20969699, 252645936>>,
       <<0, -108, 23661803, 192589744>>, <<0, -106, 20044766, 190111863>>, <<1, -107, 33112896, 7447438>>,
       <<1, -107, 25029837, 211002185>>, <<1, -108, 26078315, 219101279>>, <<1, -107, 23143534, 209411318>>,
       <<0, -106, 20140113, 150853518>>, <<0, -108, 28937074, 260741893>>, <<0, -106, 17186334, 35410953>>,
       <<0, -112, 21788757, 1689322>>, <<0, -106, 21180002, 191152181>>, <<1, -107, 30295206, 26834591>>,
       <<1, -107, 29572179, 200232360>>, <<1, -107, 21313416, 153872814>>, <<1, -106, 20770263, 139876440>>,
       <<0, -110, 24185512, 8264036>>, <<1, -106, 20659963, 257827368>>, <<1, -109, 27339480, 120895874>>,
       <<1, -109, 20348667, 141404654>>, <<1, -107, 17679317, 81823825>>, <<1, -108, 25294407, 240795343>>,
       <<1, -107, 24044716, 9141680>>, <<1, -107, 23171873, 240510602>>, <<0, -106, 17419445, 235525331>>,
       <<1, -108, 28519883, 156083485>>, <<0, -106, 21942229, 73908331>>, <<0, -109, 22986266, 198601813>>,
       <<1, -107, 25828434, 263442242>>, <<1, -106, 20355951, 20657972>>, <<1, -107, 17164355, 169475870>>,
       <<1, -106, 21841165, 141711214>>, <<0, -106, 17487477, 185502208>>, <<0, -107, 31159036, 32565940>>,
       <<1, -109, 22767113, 214296575>>, <<0, -108, 29321269, 166944580>>, <<1, -106, 19960314, 119422339>>,
       <<1, -110, 31103880, 191634985>>, <<1, -109, 29507479, 210811225>>, <<1, -106, 19149874, 49609130>>,
       <<1, -107, 22849229, 124161611>>, <<0, -108, 18546626, 194104871>>, <<0, -109, 31269726, 17462203>>,
       <<1, -107, 24924226, 39985763>>, <<0, -107, 28428398, 65155541>>, <<1, -106, 18595101, 62700309>>,
       <<0, -106, 17613593, 216936914>>, <<0, -107, 21403718, 242440883>>, <<1, -107, 19791065, 126786996>>,
       <<0, -107, 29468537, 46871431>>, <<1, -106, 17283316, 181524986>>, <<1, -110, 22822293, 115125946>>,
       <<1, -106, 17449187, 229045824>>, <<1, -109, 26046275, 145593140>>, <<1, -106, 18804262, 190351925>>,
       <<0, -108, 22019440, 174054861>>, <<1, -106, 18603967, 177379500>>, <<0, -108, 20376291, 11472051>>,
       <<0, -107, 32387877, 211811732>>, <<0, -107, 21891325, 17389996>>, <<0, -109, 20765427, 139336295>>,
       <<0, -109, 24556230, 210901352>>, <<1, -107, 17342856, 63747538>>, <<1, -107, 33215955, 268434031>>,
       <<1, -106, 16833251, 141928777>>, <<0, -108, 21641306, 104662951>>, <<1, -107, 19470818, 4203023>>,
       <<0, -107, 31827213, 96572076>>, <<0, -107, 21210522, 201419595>>, <<1, -107, 19747344, 129252895>>,
       <<1, -107, 26389395, 189205961>>, <<0, -108, 21717062, 3836115>>, <<0, -107, 20733637, 27095665>>,
       <<1, -107, 33517864, 265523696>>, <<1, -107, 31123854, 35878013>>, <<0, -107, 32259012, 27926536>>,
       <<0, -107, 21150028, 61467442>>, <<0, -107, 27675283, 30508526>>, <<1, -107, 31685550, 71033837>>,
       <<0, -108, 24679348, 227659165>>, <<0, -110, 19946516, 23121033>> >>

exp_scale(k, e) == <<0, e - 52, ExpScale[k + 1][1], ExpScale[k + 1][2]>>

\* The result is below the normal range: scale * (1 + tmp) * 2^-1022.
exp_round_low(y) ==
    IF IsZero(y) THEN fmul(Zero, TwoM1022) ELSE fmul(y, TwoM1022)

exp_low_parts(hi, lo) == exp_round_low(fsub(fadd(hi, lo), One))

exp_low_sum(y, lo) ==
    exp_low_parts(fadd(One, y), fadd(fadd(fsub(One, fadd(One, y)), y), lo))

exp_low(scale, st, y) ==
    IF fless(y, One) THEN exp_low_sum(y, fadd(fsub(scale, y), st))
    ELSE fmul(y, TwoM1022)

exp_underflow(scale, st) == exp_low(scale, st, fadd(scale, st))

exp_overflow(scale, tmp) == fmul(Two1009, ffma(scale, tmp, scale))

exp_special(tmp, n) ==
    IF n >= 0 THEN exp_overflow(exp_scale(n % 128, n \div 128 - 1009), tmp)
    ELSE exp_underflow(exp_scale(n % 128, n \div 128 + 1022),
                       fmul(exp_scale(n % 128, n \div 128 + 1022), tmp))

exp_normal(scale, tmp) == ffma(scale, tmp, scale)

exp_tail(r, r2, k) ==
    ffma(fmul(r2, r2), ffma(r, C5, C4), ffma(r2, ffma(r, C3, C2), fadd(ExpTail[k + 1], r)))

exp_poly(r, n, special) ==
    IF special THEN exp_special(exp_tail(r, fmul(r, r), n % 128), n)
    ELSE exp_normal(exp_scale(n % 128, n \div 128), exp_tail(r, fmul(r, r), n % 128))

exp_int(kd) == IF kd[1] = 1 THEN -Trunc(kd) ELSE Trunc(kd)

exp_reduce(x, kd, special) ==
    exp_poly(ffma(kd, NegLn2loN, ffma(kd, NegLn2hiN, x)), exp_int(kd), special)

\* f64::exp
fexp(x) ==
    IF x = NaN THEN NaN
    ELSE IF x[2] + 52 < -54 THEN fadd(One, x)
    ELSE IF x[2] + 52 >= 10
    THEN (IF x[1] = 1 THEN Zero ELSE Inf)
    ELSE exp_reduce(x, fsub(ffma(x, InvLn2N, Shift), Shift), x[2] + 52 = 9)

\* ------------------------------------------------------------------------
\* ndarray
\* ------------------------------------------------------------------------

\* ToPrimitive::to_usize of an f64: the integer part of x when
\* -1 < x < 2^64; otherwise the conversion fails, for which -1 stands.
\* Values from 2^31 - 1 on are IntMax.
to_usize(x) ==
    IF x = NaN \/ ~fless(fneg(One), x) \/ x[2] >= 12 THEN -1 ELSE Trunc(x)

\* The length with the end bound counted in: floor((end - start) / step) + 1.
range_len_inclusive(start, end, step) ==
    to_usize(fadd(ffloor(fdiv(fsub(end, start), step)), One))

\* The length Array::range(start, end, step) computes: the f64
\* ceil((end - start) / step) converted to usize.  The conversion fails (and
\* range panics) on a NaN, an infinity and a value of -1 or less.
range_len(start, end, step) == to_usize(fceil(fdiv(fsub(end, start), step)))

range_panics(start, end, step) == range_len(start, end, step) < 0

\* Array::range(start, end, step): start + step * k for k = 0 .. len - 1.
range(start, end, step) ==
    [k \in 1..range_len(start, end, step) |-> fadd(start, fmul(step, FromInt(k - 1)))]

\* Two one-dimensional shapes can be broadcast to a common shape when they
\* are equal or one of them is 1; otherwise array arithmetic panics.
co_broadcast_ok(lx, ly) == lx = ly \/ lx = 1 \/ ly = 1

co_broadcast(lx, ly) == IF lx = ly THEN lx ELSE IF lx = 1 THEN ly ELSE lx

\* The scalar operation behind an array operator.
scalar_op(op, u, v) ==
    IF op = "+" THEN fadd(u, v)
    ELSE IF op = "*" THEN fmul(u, v)
    ELSE fdiv(u, v)

\* Elementwise arithmetic (op is "+", "*" or "/") of two arrays, broadcast to
\* their common shape.
zip_with(op, x, y) ==
    [j \in 1..co_broadcast(Len(x), Len(y)) |->
        scalar_op(op, x[IF Len(x) = 1 THEN 1 ELSE j], y[IF Len(y) = 1 THEN 1 ELSE j])]

\* Array::ones(n)
ones(n) == [j \in 1..n |-> One]

\* Array2::zeros((rows, cols))
zeros(rows, cols) == [r \in 1..rows |-> [c \in 1..cols |-> Zero]]

\* ------------------------------------------------------------------------
\* The program's constants and functions
\* ------------------------------------------------------------------------

\* std::f64::consts::PI
PI == <<0, -51, 26353589, 71576856>>

a == Lit(1458, 3)

b == Lit(354, 5)

n_si == Lit(35, 1)

n_air == Lit(1, 0)

\* wavelengths.mapv(|w| a + b / (w * w))
cauchy(ca, cb, ws) == [j \in 1..Len(ws) |-> fadd(ca, fdiv(cb, fmul(ws[j], ws[j])))]

\* The amplitude returned as it is, neither rectified nor squared.
amplitude_only(r) == r

\* The final map of the solver: r.abs().powi(2).
abs_powi2(r) == fpowi2(fabs(r))

\* exp_m1 in place of exp: e^x - 1.
attenuation_exp_m1(d) == fsub(fexp(fmul(fmul(Lit(-2, 0), d), One)), One)

\* The attenuation factor (-2.0 * d * 1.0).exp()
attenuation(d) == fexp(fmul(fmul(Lit(-2, 0), d), One))

\* The shapes of the solver's operands cannot be broadcast: the first array
\* product (delta) panics.
tmr_panics(film, ws) == ~co_broadcast_ok(Len(ws), Len(film))

\* array * scalar
scalar_mul(x, s) == [j \in 1..Len(x) |-> fmul(x[j], s)]

\* lines 30 and 33: (2.0 * PI / wavelengths) * n_thin_film * thickness_nm,
\* with thickness_nm = thickness * 1e-1.
delta(film, thickness, ws) ==
    scalar_mul(zip_with("*", [j \in 1..Len(ws) |-> fdiv(fmul(Lit(2, 0), PI), ws[j])], film),
               fmul(thickness, Lit(1, 1)))

\* line 36: (&n_air - n_thin_film) / (&n_air + n_thin_film)
r01(air, film) ==
    [j \in 1..Len(film) |-> fdiv(fsub(air, film[j]), fadd(air, film[j]))]

\* line 37: (n_thin_film - n_silicon) / (n_thin_film + n_silicon)
r12(film, silicon) ==
    [j \in 1..Len(film) |-> fdiv(fsub(film[j], silicon), fadd(film[j], silicon))]

\* delta.mapv(|d| (-2.0 * d * 1.0_f64).exp())
mapv_attenuation(d) == [j \in 1..Len(d) |-> attenuation(d[j])]

\* lines 39-40: (&r01 + &r12 * &att) / (&Array::ones(n) + &r01 * &r12 * &att),
\* att the attenuation factors.
reflection_amplitude(x01, x12, att, n) ==
    zip_with("/", zip_with("+", x01, zip_with("*", x12, att)),
                  zip_with("+", ones(n), zip_with("*", zip_with("*", x01, x12), att)))

\* line 42: r.mapv(|r| r.abs().powi(2))
mapv_abs_powi2(x) == [j \in 1..Len(x) |-> abs_powi2(x[j])]

transfer_matrix_reflectivity(air, film, silicon, thickness, ws) ==
    mapv_abs_powi2(
        reflection_amplitude(r01(air, film), r12(film, silicon),
                             mapv_attenuation(delta(film, thickness, ws)), Len(ws)))

\* Palette / chart construction are the renderer's; a drawn series is the
\* label's thickness and the (wavelength, reflectivity) points handed over.
zip(x, y) == [j \in 1..Min(Len(x), Len(y)) |-> <<x[j], y[j]>>]

\* reflectivity_spectra.row_mut(k).assign(&row), k counted from 0.
row_assign(m, k, row) == [m EXCEPT ![k + 1] = row]

\* thicknesses.iter().step_by(1000)
plot_step == 1000

\* ------------------------------------------------------------------------
\* Inputs of the model
\* ------------------------------------------------------------------------

\* Grid parameters are triples <<start, end, step>>.
wavelength_range == <<Lit(200, 0), Lit(8005, 1), Lit(5, 1)>>

thickness_range == <<Lit(0, 0), Lit(6001, 0), Lit(1, 0)>>

\* Small thickness grids 0, 1, ..., n - 1 are taken for n up to MaxRows.
MaxRows == 3

\* A sweep in arbitrary order is explored on grids of up to MaxPar rows.
MaxPar == 4

\* Wavelength grids over the program's interval with 1, 2 and 7 samples.
SingleWavelength == <<Lit(200, 0), Lit(8005, 1), Lit(700, 0)>>

CoarseWavelengths == <<Lit(200, 0), Lit(8005, 1), Lit(600, 0)>>

MediumWavelengths == <<Lit(200, 0), Lit(8005, 1), Lit(100, 0)>>

SmallWavelengthParams ==
    { CoarseWavelengths, MediumWavelengths,
      <<Lit(200, 0), Lit(8005, 1), Zero>>,
      <<Lit(800, 0), Lit(200, 0), Lit(5, 1)>> }

SmallThicknessParams ==
    { <<Zero, Lit(6001, 0), Lit(2000, 0)>>,
      <<Zero, Lit(6001, 0), Lit(500, 0)>>,
      <<Zero, Lit(6001, 0), Zero>>,
      <<Zero, Lit(6001, 0), Lit(-1, 0)>>,
      <<Lit(5, 0), Zero, Lit(-1, 0)>>,
      <<Lit(1, 0), Lit(5, 1), Lit(1, 0)>>,
      <<Lit(5, 0), Zero, Lit(1, 0)>>,
      <<Zero, Zero, Zero>> }
    \cup { <<Zero, Lit(n, 0), One>> : n \in 0..MaxRows }

\* The grids the sweep is stepped through row by row: the small ones, and
\* the program's 1201 wavelengths over a single thickness.
Configs ==
    [wl : SmallWavelengthParams, th : SmallThicknessParams]
    \cup { [wl |-> wavelength_range, th |-> <<Zero, One, One>>] }

\* With the sweep loop taken as one step, the program's 6001 thicknesses are
\* run in full as well, over a single wavelength.
LoopConfigs == Configs \cup { [wl |-> SingleWavelength, th |-> thickness_range] }

\* ------------------------------------------------------------------------
\* The program
\* ------------------------------------------------------------------------

VARIABLES
    pc,                    \* the statement the script is at
    cfg,                   \* the grid parameters of this run
    wavelengths,           \* line 6
    n_thin_film,           \* line 13
    thicknesses,           \* line 46
    reflectivity_spectra,  \* line 47
    i,                     \* the sweep loop's index (line 50)
    plot_i,                \* the plotting loop's index (line 67)
    series,                \* the series drawn so far (line 69)
    assigned,              \* history: the rows assigned, in order (line 51)
    args,                  \* the arguments of a direct call of the solver
    result                 \* what that call returned

vars == <<pc, cfg, wavelengths, n_thin_film, thicknesses, reflectivity_spectra,
          i, plot_i, series, assigned, args, result>>

NoCall == [status |-> "none", out |-> <<>>]

Start(c) ==
    /\ pc = "wavelengths"
    /\ cfg = c
    /\ wavelengths = <<>>
    /\ n_thin_film = <<>>
    /\ thicknesses = <<>>
    /\ reflectivity_spectra = <<>>
    /\ i = 0
    /\ plot_i = 0
    /\ series = <<>>
    /\ assigned = <<>>
    /\ args = <<>>
    /\ result = NoCall

Init == \E c \in Configs : Start(c)

\* line 6: let wavelengths = Array::range(200.0, 800.5, 0.5);
MakeWavelengths ==
    /\ pc = "wavelengths"
    /\ IF range_panics(cfg.wl[1], cfg.wl[2], cfg.wl[3])
       THEN pc' = "panic" /\ UNCHANGED wavelengths
       ELSE pc' = "n_thin_film" /\ wavelengths' = range(cfg.wl[1], cfg.wl[2], cfg.wl[3])
    /\ UNCHANGED <<cfg, n_thin_film, thicknesses, reflectivity_spectra, i, plot_i,
                   series, assigned, args, result>>

\* line 13: let n_thin_film = wavelengths.mapv(|w| a + b / (w * w));
MakeFilmIndex ==
    /\ pc = "n_thin_film"
    /\ n_thin_film' = cauchy(a, b, wavelengths)
    /\ pc' = "thicknesses"
    /\ UNCHANGED <<cfg, wavelengths, thicknesses, reflectivity_spectra, i, plot_i,
                   series, assigned, args, result>>

\* line 46: let thicknesses = Array::range(0.0, 6001.0, 1.0);
MakeThicknesses ==
    /\ pc = "thicknesses"
    /\ IF range_panics(cfg.th[1], cfg.th[2], cfg.th[3])
       THEN pc' = "panic" /\ UNCHANGED thicknesses
       ELSE pc' = "reflectivity_spectra"
            /\ thicknesses' = range(cfg.th[1], cfg.th[2], cfg.th[3])
    /\ UNCHANGED <<cfg, wavelengths, n_thin_film, reflectivity_spectra, i, plot_i,
                   series, assigned, args, result>>

\* line 47: let mut reflectivity_spectra = Array2::zeros((.., ..));
AllocSpectra ==
    /\ pc = "reflectivity_spectra"
    /\ reflectivity_spectra' = zeros(Len(thicknesses), Len(wavelengths))
    /\ i' = 0
    /\ pc' = "sweep"
    /\ UNCHANGED <<cfg, wavelengths, n_thin_film, thicknesses, plot_i, series,
                   assigned, args, result>>

\* The loop body with the thickness read at a fixed index instead of k.
sweep_row_first_thickness(m, k) ==
    row_assign(m, k,
        transfer_matrix_reflectivity(n_air, n_thin_film, n_si, thicknesses[1],
                                     wavelengths))

\* The loop body assigning through a slice k.. instead of the row k.
sweep_row_slice(m, k) ==
    LET row == transfer_matrix_reflectivity(n_air, n_thin_film, n_si,
                                            thicknesses[k + 1], wavelengths)
    IN  [r \in 1..Len(m) |-> IF r >= k + 1 THEN row ELSE m[r]]

\* line 51, the body of the sweep loop for index k (from 0) on matrix m.
sweep_row(m, k) ==
    row_assign(m, k,
        transfer_matrix_reflectivity(n_air, n_thin_film, n_si, thicknesses[k + 1],
                                     wavelengths))

\* The loop body applied for the indices lo, lo + 1, ..., hi - 1 in this
\* order.  The range is halved, and the first half is evaluated (its length
\* is asked for) before the second is entered, to keep the evaluation
\* shallow.
RECURSIVE sweep_range(_, _, _)
sweep_range(m, lo, hi) ==
    IF lo >= hi THEN m
    ELSE IF hi - lo = 1 THEN sweep_row(m, lo)
    ELSE LET mid   == (lo + hi) \div 2
             first == sweep_range(m, lo, mid)
         IN  IF Len(first) >= 0 THEN sweep_range(first, mid, hi) ELSE first

\* lines 50-52 as a whole: the matrix the loop builds from m, taking the
\* indices k, k + 1, ... in ascending order.
sweep_ascending(m, k) == sweep_range(m, k, Len(thicknesses))

\* An index that is not advanced.
next_index_stuck(k) == k

\* enumerate(): the index after k.
next_index(k) == k + 1

\* lines 50-52: one iteration of the sweep loop.
SweepStep ==
    /\ pc = "sweep"
    /\ i < Len(thicknesses)
    /\ reflectivity_spectra' = sweep_row(reflectivity_spectra, i)
    /\ assigned' = Append(assigned, i)
    /\ i' = next_index(i)
    /\ UNCHANGED <<pc, cfg, wavelengths, n_thin_film, thicknesses, plot_i, series,
                   args, result>>

\* lines 55-65: the sweep loop is over; the chart is set up.
ChartSetup ==
    /\ pc = "sweep"
    /\ i >= Len(thicknesses)
    /\ pc' = "plot"
    /\ plot_i' = 0
    /\ UNCHANGED <<cfg, wavelengths, n_thin_film, thicknesses, reflectivity_spectra,
                   i, series, assigned, args, result>>

\* lines 67-76: one iteration of the plotting loop; step_by(1000) yields
\* thicknesses[0], thicknesses[1000], ... and enumerate() counts them 0, 1, ...
PlotStep ==
    /\ pc = "plot"
    /\ plot_i * plot_step < Len(thicknesses)
    /\ series' = Append(series,
          [label  |-> thicknesses[plot_i * plot_step + 1],
           points |-> zip(wavelengths, reflectivity_spectra[plot_i + 1])])
    /\ plot_i' = plot_i + 1
    /\ UNCHANGED <<pc, cfg, wavelengths, n_thin_film, thicknesses,
                   reflectivity_spectra, i, assigned, args, result>>

\* line 78: the plotting loop is over; the legend is drawn.
DrawLegend ==
    /\ pc = "plot"
    /\ plot_i * plot_step >= Len(thicknesses)
    /\ pc' = "done"
    /\ UNCHANGED <<cfg, wavelengths, n_thin_film, thicknesses, reflectivity_spectra,
                   i, plot_i, series, assigned, args, result>>

Next ==
    \/ MakeWavelengths
    \/ MakeFilmIndex
    \/ MakeThicknesses
    \/ AllocSpectra
    \/ SweepStep
    \/ ChartSetup
    \/ PlotStep
    \/ DrawLegend

Spec == Init /\ [][Next]_vars

\* ------------------------------------------------------------------------
\* The program with the sweep loop as one step
\* ------------------------------------------------------------------------

\* lines 50-52: the whole sweep loop.
SweepLoop ==
    /\ pc = "sweep"
    /\ i < Len(thicknesses)
    /\ reflectivity_spectra' = sweep_ascending(reflectivity_spectra, i)
    /\ assigned' = assigned \o [p \in 1..(Len(thicknesses) - i) |-> i + p - 1]
    /\ i' = Len(thicknesses)
    /\ UNCHANGED <<pc, cfg, wavelengths, n_thin_film, thicknesses, plot_i, series,
                   args, result>>

InitLoop == \E c \in LoopConfigs : Start(c)

NextLoop ==
    \/ MakeWavelengths
    \/ MakeFilmIndex
    \/ MakeThicknesses
    \/ AllocSpectra
    \/ SweepLoop
    \/ ChartSetup
    \/ PlotStep
    \/ DrawLegend

LoopSpec == InitLoop /\ [][NextLoop]_vars

\* ------------------------------------------------------------------------
\* The sweep with its rows taken in any order
\* ------------------------------------------------------------------------

\* The loop body of line 51 applied to any row not yet assigned: the rows of
\* lines 50-52 executed in an arbitrary order instead of ascending.
SweepAnyRow ==
    /\ pc = "sweep"
    /\ \E k \in 0..(Len(thicknesses) - 1) :
          /\ \A p \in 1..Len(assigned) : assigned[p] # k
          /\ reflectivity_spectra' = sweep_row(reflectivity_spectra, k)
          /\ assigned' = Append(assigned, k)
    /\ i' = next_index(i)
    /\ UNCHANGED <<pc, cfg, wavelengths, n_thin_film, thicknesses, plot_i, series,
                   args, result>>

InitAnyOrder ==
    \E c \in [wl : SmallWavelengthParams, th : SmallThicknessParams] :
        /\ range_len(c.th[1], c.th[2], c.th[3]) <= MaxPar
        /\ Start(c)

NextAnyOrder ==
    \/ MakeWavelengths
    \/ MakeFilmIndex
    \/ MakeThicknesses
    \/ AllocSpectra
    \/ SweepAnyRow
    \/ ChartSetup
    \/ PlotStep
    \/ DrawLegend

AnyOrderSpec == InitAnyOrder /\ [][NextAnyOrder]_vars

\* ------------------------------------------------------------------------
\* The solver called directly
\* ------------------------------------------------------------------------

SolverWavelengths ==
    { range(CoarseWavelengths[1], CoarseWavelengths[2], CoarseWavelengths[3]),
      <<Lit(200, 0), Lit(500, 0), Lit(800, 0)>>,
      <<Lit(500, 0)>> }

SolverFilms ==
    { cauchy(a, b, range(CoarseWavelengths[1], CoarseWavelengths[2], CoarseWavelengths[3])),
      <<a>>,
      <<Lit(2, 0), Lit(12, 1), Lit(17, 1)>>,
      <<Lit(-1458, 3), a>>,
      <<Zero, a>> }

SolverAmbient == { n_air, n_si, Zero, Lit(-4, 0) }

SolverSubstrate == { n_si, n_air, Zero, Lit(-2, 0) }

SolverThickness == { Zero, One, Lit(1000, 0), Lit(6000, 0) }

SolverArgs ==
    [air : SolverAmbient, film : SolverFilms, silicon : SolverSubstrate,
     thickness : SolverThickness, ws : SolverWavelengths]

InitSolver ==
    /\ pc = "call"
    /\ cfg = [wl |-> wavelength_range, th |-> thickness_range]
    /\ wavelengths = <<>>
    /\ n_thin_film = <<>>
    /\ thicknesses = <<>>
    /\ reflectivity_spectra = <<>>
    /\ i = 0
    /\ plot_i = 0
    /\ series = <<>>
    /\ assigned = <<>>
    /\ args \in SolverArgs
    /\ result = NoCall

\* lines 22-43: one call of transfer_matrix_reflectivity.
Call ==
    /\ pc = "call"
    /\ result' =
          IF tmr_panics(args.film, args.ws)
          THEN [status |-> "panic", out |-> <<>>]
          ELSE [status |-> "ok",
                out |-> transfer_matrix_reflectivity(args.air, args.film, args.silicon,
                                                     args.thickness, args.ws)]
    /\ pc' = "returned"
    /\ UNCHANGED <<cfg, wavelengths, n_thin_film, thicknesses, reflectivity_spectra,
                   i, plot_i, series, assigned, args>>

NextSolver == Call

SolverSpec == InitSolver /\ [][NextSolver]_vars

\* ------------------------------------------------------------------------
\* Properties
\* ------------------------------------------------------------------------

SweepOver == (pc = "plot" /\ plot_i = 0) \/ pc = "done"

\* C1: once the sweep loop has completed (checked in the state it completes
\* in and in the program's last state), the matrix has one row per
\* thickness, row r is exactly what transfer_matrix_reflectivity returns for
\* thicknesses[r] and the shared n_air, n_thin_film, n_si and wavelengths,
\* and every row is as long as the wavelength grid.
RowsMatchThickness ==
    SweepOver =>
        /\ Len(reflectivity_spectra) = Len(thicknesses)
        /\ \A r \in 1..Len(thicknesses) :
              /\ Len(reflectivity_spectra[r]) = Len(wavelengths)
              /\ reflectivity_spectra[r] =
                    transfer_matrix_reflectivity(n_air, n_thin_film, n_si,
                                                 thicknesses[r], wavelengths)

\* The sweep is over and has filled rows that differ from one another.
RowsMatchThicknessWitness ==
    /\ pc = "done"
    /\ Len(thicknesses) >= 2
    /\ reflectivity_spectra[1] # reflectivity_spectra[2]

\* C2: every series drawn shows the matrix row computed for the thickness
\* its label names.
SeriesMatchLabel ==
    \A s \in 1..Len(series) :
        \E r \in 1..Len(thicknesses) :
            /\ thicknesses[r] = series[s].label
            /\ series[s].points = zip(wavelengths, reflectivity_spectra[r])

ExpectedWavelengths == [k \in 1..1201 |-> Lit(2000 + 5 * (k - 1), 1)]

ExpectedThicknesses == [k \in 1..6001 |-> FromInt(k - 1)]

\* C3: with the program's parameters the wavelength grid is 200.0, 200.5,
\* ..., 800.0 (1201 samples, 800.5 left out), the thickness grid is 0, 1,
\* ..., 6000 (6001 samples), and from its creation on the matrix has one row
\* per thickness and one column per wavelength.
GridsAndShape ==
    /\ (cfg.wl = wavelength_range /\ pc \notin {"wavelengths", "call"}) =>
          /\ wavelengths = ExpectedWavelengths
          /\ wavelengths[Len(wavelengths)] = Lit(800, 0)
    /\ (cfg.th = thickness_range /\ pc \in {"reflectivity_spectra", "sweep", "plot", "done"}) =>
          thicknesses = ExpectedThicknesses
    /\ pc \in {"sweep", "plot", "done"} =>
          /\ Len(reflectivity_spectra) = Len(thicknesses)
          /\ \A r \in 1..Len(reflectivity_spectra) :
                Len(reflectivity_spectra[r]) = Len(wavelengths)
          /\ cfg.wl = wavelength_range =>
                \A r \in 1..Len(reflectivity_spectra) : Len(reflectivity_spectra[r]) = 1201
          /\ cfg.th = thickness_range => Len(reflectivity_spectra) = 6001

\* The run over the program's wavelength grid has ended with a matrix of
\* 1201 columns.
GridsAndShapeWitness ==
    /\ pc = "done"
    /\ cfg.wl = wavelength_range
    /\ Len(wavelengths) = 1201
    /\ Len(reflectivity_spectra) = 1
    /\ Len(reflectivity_spectra[1]) = 1201

\* The single-interface reflectivity ((n0 - n1) / (n0 + n1))^2.
fresnel(n0, n1) == abs_powi2(fdiv(fsub(n0, n1), fadd(n0, n1)))

\* Agreement up to the rounding of the arithmetic (10^-12).
Tol == Lit(1, 12)

near(x, y) == fleq(fabs(fsub(x, y)), Tol)

Positive(x) == fless(Zero, x)

AllPositive(call) ==
    /\ Positive(call.air)
    /\ Positive(call.silicon)
    /\ \A j \in 1..Len(call.film) : Positive(call.film[j])

\* A call at thickness 0 with positive indices and a profile aligned with
\* the wavelength grid has returned.
ReturnedAtZero ==
    /\ pc = "returned"
    /\ result.status = "ok"
    /\ args.thickness = Zero
    /\ Len(args.film) = Len(args.ws)
    /\ AllPositive(args)

\* C4 as stated: at thickness 0 the solver returns the ambient/film Fresnel
\* reflectivity at every wavelength, when ambient = substrate and for the
\* program's own indices (1.0, 3.5).
ZeroThicknessIsAmbientFilm ==
    (ReturnedAtZero /\ (args.air = args.silicon \/ (args.air = n_air /\ args.silicon = n_si))) =>
        \A j \in 1..Len(result.out) : near(result.out[j], fresnel(args.air, args.film[j]))

\* C4 amended: at thickness 0 the solver returns, at every wavelength and up
\* to rounding, the ambient/substrate Fresnel reflectivity
\* ((n_ambient - n_substrate) / (n_ambient + n_substrate))^2, whatever the
\* film index; it is exactly 0 when ambient = substrate.
ZeroThicknessIsAmbientSubstrate ==
    ReturnedAtZero =>
        \A j \in 1..Len(result.out) :
            /\ near(result.out[j], fresnel(args.air, args.silicon))
            /\ args.air = args.silicon => result.out[j] = Zero

\* The program's indices at thickness 0: the value returned is not the
\* ambient/film reflectivity.
ZeroThicknessWitness ==
    /\ ReturnedAtZero
    /\ args.air = n_air
    /\ args.silicon = n_si
    /\ args.film = cauchy(a, b, args.ws)
    /\ Len(args.ws) = 2
    /\ ~near(result.out[1], fresnel(n_air, a))

InUnit(x) == fleq(Zero, x) /\ fleq(x, One)

InClaimRange ==
    /\ \A r \in 1..Len(thicknesses) :
          fleq(Zero, thicknesses[r]) /\ fleq(thicknesses[r], Lit(6000, 0))
    /\ \A c \in 1..Len(wavelengths) :
          fleq(Lit(200, 0), wavelengths[c]) /\ fleq(wavelengths[c], Lit(800, 0))

\* C5: for the program's indices, wavelengths in 200..800 and thicknesses in
\* 0..6000, every entry of the completed matrix is >= 0 and <= 1.
EntriesInUnitInterval ==
    (pc \in {"plot", "done"} /\ InClaimRange) =>
        \A r \in 1..Len(reflectivity_spectra) :
            \A c \in 1..Len(reflectivity_spectra[r]) : InUnit(reflectivity_spectra[r][c])

\* A completed matrix spanning thicknesses 0 to 6000 whose entries are
\* neither all 0 nor all equal.
EntriesInUnitIntervalWitness ==
    /\ pc = "done"
    /\ InClaimRange
    /\ Len(thicknesses) >= 2
    /\ thicknesses[Len(thicknesses)] = Lit(6000, 0)
    /\ reflectivity_spectra[1][1] # Zero
    /\ reflectivity_spectra[1][1] # reflectivity_spectra[Len(thicknesses)][1]

NonPositiveIndex(call) == ~AllPositive(call)

\* C6: a call with a non-positive refractive index fails and returns no
\* array.
NonPositiveIndexRejected ==
    (pc = "returned" /\ NonPositiveIndex(args)) =>
        (result.status # "ok" /\ result.out = <<>>)

\* C7: a call whose film index profile and wavelength grid differ in length
\* fails and returns no array.
LengthMismatchRejected ==
    (pc = "returned" /\ Len(args.film) # Len(args.ws)) =>
        (result.status # "ok" /\ result.out = <<>>)

\* step <= 0 or start > stop
BadRange(t) == fleq(t[3], Zero) \/ fless(t[2], t[1])

\* C8: a grid with step <= 0 or start > stop is never built: the program
\* fails at that statement, before anything after it runs (for the
\* thickness grid, before the matrix is allocated and any row computed).
BadRangeRejected ==
    /\ BadRange(cfg.wl) => pc \in {"wavelengths", "panic", "call", "returned"}
    /\ BadRange(cfg.th) =>
          pc \in {"wavelengths", "n_thin_film", "thicknesses", "panic", "call", "returned"}

\* C9: rows are assigned in ascending index order, each once (the k-th
\* assignment is to row k), only while the sweep loop runs; a series is
\* drawn only when every row has been assigned; and once the sweep loop is
\* over neither the matrix nor the record of assignments changes.
AssignedOnceInOrder ==
    [][ /\ (assigned' # assigned) =>
              /\ pc = "sweep"
              /\ Len(assigned) < Len(thicknesses)
              /\ assigned' = Append(assigned, Len(assigned))
        /\ (series' # series) =>
              /\ Len(assigned) = Len(thicknesses)
              /\ \A p \in 1..Len(assigned) : assigned[p] = p - 1
        /\ (pc = "sweep" /\ pc' = "plot") => Len(assigned) = Len(thicknesses)
        /\ (pc \in {"plot", "done"}) =>
              /\ reflectivity_spectra' = reflectivity_spectra
              /\ assigned' = assigned
      ]_vars

\* Several rows were assigned and a series was drawn afterwards.
AssignedOnceInOrderWitness ==
    /\ pc = "done"
    /\ Len(assigned) >= 3
    /\ Len(series) >= 1

\* C10: a sweep step for index k changes row k only: the grids, the film
\* index profile and every other row stay as they are; and in whatever order
\* the rows are computed, the completed matrix is the one the ascending
\* sweep builds.
RowStepFrameAndOrder ==
    [][ /\ (pc = "sweep" /\ assigned' # assigned) =>
              LET k == assigned'[Len(assigned')] IN
              /\ Len(reflectivity_spectra') = Len(reflectivity_spectra)
              /\ \A r \in 1..Len(reflectivity_spectra) :
                    r # k + 1 => reflectivity_spectra'[r] = reflectivity_spectra[r]
              /\ wavelengths' = wavelengths
              /\ n_thin_film' = n_thin_film
              /\ thicknesses' = thicknesses
        /\ (pc = "sweep" /\ pc' = "plot") =>
              reflectivity_spectra =
                  sweep_ascending(zeros(Len(thicknesses), Len(wavelengths)), 0)
      ]_vars

\* A sweep that took its rows out of ascending order has completed.
RowStepFrameAndOrderWitness ==
    /\ pc = "plot"
    /\ Len(assigned) >= 3
    /\ assigned[1] > assigned[2]
    /\ reflectivity_spectra[1] # reflectivity_spectra[2]

====
